---- MODULE Spec2Model ----
(***************************************************************************)
(* A model of markdown-indexer: the text flattener (collect_text /         *)
(* node_to_plain_text), the section segmenter (index_markdown) and the     *)
(* conversion of sections into JSON records (process_path).                *)
(*                                                                         *)
(* Strings are sequences of one-character strings, so that concatenation   *)
(* (push_str) is \o and trim() can look at the characters.  An             *)
(* Option<T> is a sequence of length 0 (None) or 1 (Some).                 *)
(***************************************************************************)
EXTENDS Naturals, Sequences, FiniteSets

VARIABLES
    nodes,      \* index_markdown: root.children, the top-level nodes
    i,          \* index_markdown: position of the for loop in root.children
    current,    \* index_markdown: Option<Section>, the section being built
    sections,   \* index_markdown: Vec<Section>, the finished sections
    pc,         \* where the modelled function is
    fnode,      \* node_to_plain_text: the argument
    fout,       \* node_to_plain_text: the returned String
    inputs,     \* main: existing_inputs
    max_depth,  \* main: Option<usize>, the depth limit
    src_of,     \* the file system: what read_to_string gives for a file
    next_input, \* main: position of the loop over existing_inputs
    stack,      \* the calls of process_path still to run, innermost first
    docs,       \* main: all_docs
    stdout,     \* what was written to standard output
    exit_code,  \* Option: the exit status of the process
    args,       \* main: env::args().collect()
    parsed      \* Option: what parse_args(&args) returned

segVars  == <<nodes, i, current, sections>>
flatVars == <<fnode, fout>>
walkVars == <<inputs, max_depth, src_of, next_input, stack, docs, stdout, exit_code>>
argVars  == <<args, parsed>>

vars == <<nodes, i, current, sections, pc, fnode, fout,
          inputs, max_depth, src_of, next_input, stack, docs, stdout, exit_code,
          args, parsed>>

----------------------------------------------------------------------------
(* Bounds of the model. *)

\* longest list of top-level nodes of one document
MaxNodes == 3

\* most nodes in a tree handed to node_to_plain_text
MaxSize == 4

\* largest depth limit given on the command line
MaxLimit == 2

\* most arguments after the program name
MaxArgs == 4

----------------------------------------------------------------------------
(* Strings and options. *)

None == <<>>
Some(x) == <<x>>

\* char::is_whitespace, on the characters the model uses
Whitespace == {" ", "\n", "\t"}

RECURSIVE trim_start(_)
trim_start(s) ==
    IF s # <<>> /\ Head(s) \in Whitespace THEN trim_start(Tail(s)) ELSE s

RECURSIVE trim_end(_)
trim_end(s) ==
    IF s # <<>> /\ s[Len(s)] \in Whitespace
    THEN trim_end(SubSeq(s, 1, Len(s) - 1))
    ELSE s

\* str::trim
trim(s) == trim_end(trim_start(s))

\* the title of the synthetic section, String::from("(preamble)"): one
\* token of the model's alphabet stands for these ten characters
PreambleTitle == <<"(preamble)">>

----------------------------------------------------------------------------
(* mdast nodes: one record shape for every variant; a variant that has no  *)
(* such field carries the empty value there.                               *)

Node(k, d, l, m, v, c) ==
    [kind |-> k, depth |-> d, lang |-> l, meta |-> m, value |-> v, children |-> c]

Text(v)          == Node("Text", 0, None, None, v, <<>>)
InlineCode(v)    == Node("InlineCode", 0, None, None, v, <<>>)
Html(v)          == Node("Html", 0, None, None, v, <<>>)
Code(l, m, v)    == Node("Code", 0, l, m, v, <<>>)
ThematicBreak    == Node("ThematicBreak", 0, None, None, <<>>, <<>>)
Emphasis(c)      == Node("Emphasis", 0, None, None, <<>>, c)
Strong(c)        == Node("Strong", 0, None, None, <<>>, c)
Link(c)          == Node("Link", 0, None, None, <<>>, c)
Paragraph(c)     == Node("Paragraph", 0, None, None, <<>>, c)
Blockquote(c)    == Node("Blockquote", 0, None, None, <<>>, c)
List(c)          == Node("List", 0, None, None, <<>>, c)
ListItem(c)      == Node("ListItem", 0, None, None, <<>>, c)
Root(c)          == Node("Root", 0, None, None, <<>>, c)
Heading(d, c)    == Node("Heading", d, None, None, <<>>, c)

\* the variants for which mdast::Node::children() is Some
ParentKinds ==
    {"Root", "Paragraph", "Heading", "Blockquote", "List", "ListItem",
     "Emphasis", "Strong", "Link", "LinkReference", "Delete",
     "FootnoteDefinition", "Table", "TableRow", "TableCell",
     "MdxJsxFlowElement", "MdxJsxTextElement"}

\* node.children(): Option<&Vec<Node>>
children(node) ==
    IF node.kind \in ParentKinds THEN Some(node.children) ELSE None

----------------------------------------------------------------------------
(* The flattener. *)

RECURSIVE collect_text(_, _)
RECURSIVE collect_children(_, _)

\* the for loop of collect_text over the children, threading `out`
collect_children(kids, out) ==
    IF kids = <<>> THEN out
    ELSE collect_children(Tail(kids), collect_text(Head(kids), out))

\* collect_text with `out = value` in place of push_str
collect_text_overwrites(node, out) ==
    IF node.kind = "Text" THEN node.value
    ELSE IF node.kind = "InlineCode" THEN node.value
    ELSE IF children(node) # None
         THEN collect_children(children(node)[1], out)
         ELSE out

\* collect_text(node, &mut out): the value of out on return
collect_text(node, out) ==
    IF node.kind = "Text" THEN out \o node.value
    ELSE IF node.kind = "InlineCode" THEN out \o node.value
    ELSE IF children(node) # None
         THEN collect_children(children(node)[1], out)
         ELSE out

node_to_plain_text(node) == collect_text(node, <<>>)

----------------------------------------------------------------------------
(* The segmenter: one arm of the match of index_markdown per operator.     *)
(* A loop state is the pair of locals [current, sections].                 *)

Section(t, l, bt, cb) ==
    [title |-> t, level |-> l, body_text |-> bt, code_blocks |-> cb]

\* CodeBlock with the value trimmed
CodeBlock_trimmed(code) ==
    [lang |-> code.lang, meta |-> code.meta, value |-> trim(code.value)]

CodeBlock(code) == [lang |-> code.lang, meta |-> code.meta, value |-> code.value]

Locals(cur, secs) == [current |-> cur, sections |-> secs]

\* the Heading arm without "Finish previous section"
heading_arm_drops_open(st, node) ==
    Locals(Some(Section(node_to_plain_text(node), node.depth, <<>>, <<>>)), st.sections)

\* the Heading arm with the level left at 0
heading_arm_level_zero(st, node) ==
    LET secs == IF st.current # None
                THEN Append(st.sections, st.current[1])
                ELSE st.sections
    IN  Locals(Some(Section(node_to_plain_text(node), 0, <<>>, <<>>)), secs)

\* the Heading arm that keeps a deeper heading inside the open section
heading_arm_nests(st, node) ==
    IF st.current # None /\ node.depth > st.current[1].level /\ st.current[1].level > 0
    THEN st
    ELSE LET secs == IF st.current # None
                     THEN Append(st.sections, st.current[1])
                     ELSE st.sections
         IN  Locals(Some(Section(node_to_plain_text(node), node.depth, <<>>, <<>>)), secs)

\* the Heading arm that puts the finished section in front of the output
heading_arm_prepends(st, node) ==
    LET secs == IF st.current # None
                THEN <<st.current[1]>> \o st.sections
                ELSE st.sections
    IN  Locals(Some(Section(node_to_plain_text(node), node.depth, <<>>, <<>>)), secs)

\* mdast::Node::Heading(h) => ...
heading_arm(st, node) ==
    LET secs == IF st.current # None
                THEN Append(st.sections, st.current[1])
                ELSE st.sections
        title == node_to_plain_text(node)
    IN  Locals(Some(Section(title, node.depth, <<>>, <<>>)), secs)

\* the text arm with text.is_empty() in place of text.trim().is_empty()
text_arm_no_trim(st, node) ==
    LET text == node_to_plain_text(node) IN
    IF text = <<>> THEN st
    ELSE IF st.current # None
         THEN Locals(Some([st.current[1] EXCEPT !.body_text = Append(@, text)]),
                     st.sections)
         ELSE Locals(Some(Section(PreambleTitle, 0, <<text>>, <<>>)), st.sections)

\* the text arm that opens the preamble before it looks at the text
text_arm_opens_first(st, node) ==
    LET text == node_to_plain_text(node)
        open == IF st.current # None THEN st.current[1]
                ELSE Section(PreambleTitle, 0, <<>>, <<>>)
    IN  IF trim(text) = <<>> THEN Locals(Some(open), st.sections)
        ELSE Locals(Some([open EXCEPT !.body_text = Append(@, text)]), st.sections)

\* the text arm that opens the preamble without the text that opened it
text_arm_loses_first(st, node) ==
    LET text == node_to_plain_text(node) IN
    IF trim(text) = <<>> THEN st
    ELSE IF st.current # None
         THEN Locals(Some([st.current[1] EXCEPT !.body_text = Append(@, text)]),
                     st.sections)
         ELSE Locals(Some(Section(PreambleTitle, 0, <<>>, <<>>)), st.sections)

\* the body shared by the Paragraph arm and the "extra text" arm
text_arm(st, node) ==
    LET text == node_to_plain_text(node) IN
    IF trim(text) = <<>> THEN st
    ELSE IF st.current # None
         THEN Locals(Some([st.current[1] EXCEPT !.body_text = Append(@, text)]),
                     st.sections)
         ELSE Locals(Some(Section(PreambleTitle, 0, <<text>>, <<>>)), st.sections)

\* the Code arm that opens the synthetic section with level 1
code_arm_level_one(st, node) ==
    IF st.current # None
    THEN Locals(Some([st.current[1] EXCEPT !.code_blocks = Append(@, CodeBlock(node))]),
                st.sections)
    ELSE Locals(Some(Section(PreambleTitle, 1, <<>>, <<CodeBlock(node)>>)), st.sections)

\* mdast::Node::Code(code) => ...
code_arm(st, node) ==
    IF st.current # None
    THEN Locals(Some([st.current[1] EXCEPT !.code_blocks = Append(@, CodeBlock(node))]),
                st.sections)
    ELSE Locals(Some(Section(PreambleTitle, 0, <<>>, <<CodeBlock(node)>>)), st.sections)

\* the kinds of the arm "Block/inline content we treat as extra text"
ExtraTextKinds ==
    {"Blockquote", "FootnoteDefinition", "MdxJsxFlowElement", "List", "MdxjsEsm",
     "Toml", "Yaml", "Math", "MdxFlowExpression", "Table", "TableRow", "TableCell",
     "ListItem", "Definition", "ThematicBreak", "Html", "Break", "InlineCode",
     "InlineMath", "Delete", "Emphasis", "MdxTextExpression", "FootnoteReference",
     "Image", "ImageReference", "MdxJsxTextElement", "Link", "LinkReference",
     "Strong", "Text"}

\* the flush that leaves out a section without body text and code
flush_skips_empty(st) ==
    IF st.current # None
          /\ (st.current[1].body_text # <<>> \/ st.current[1].code_blocks # <<>>)
    THEN Locals(None, Append(st.sections, st.current[1]))
    ELSE Locals(None, st.sections)

\* the flush that pushes a copy and leaves the section open
flush_keeps_open(st) ==
    IF st.current # None
    THEN Locals(st.current, Append(st.sections, st.current[1]))
    ELSE st

\* "Flush last section."
flush(st) ==
    IF st.current # None
    THEN Locals(None, Append(st.sections, st.current[1]))
    ELSE st

\* match node { ... }: the arm a top-level node takes
match_node(st, node) ==
    IF node.kind = "Heading" THEN heading_arm(st, node)
    ELSE IF node.kind = "Paragraph" THEN text_arm(st, node)
    ELSE IF node.kind = "Code" THEN code_arm(st, node)
    ELSE IF node.kind \in ExtraTextKinds THEN text_arm(st, node)
    ELSE st

\* for node in &root.children { ... }
RECURSIVE for_nodes(_, _)
for_nodes(st, ns) ==
    IF ns = <<>> THEN st ELSE for_nodes(match_node(st, Head(ns)), Tail(ns))

\* Result<T, Message>
Ok(x) == [ok |-> TRUE, val |-> x]
Err   == [ok |-> FALSE, val |-> <<>>]

\* A source text is given by what the parser makes of it: a parse error, or
\* the children of the root.
Source(e, c) == [err |-> e, children |-> c]

\* markdown::to_mdast(src, &ParseOptions::default())
to_mdast(src) == IF src.err THEN Err ELSE Ok(Root(src.children))

\* index_markdown(src): Result<Vec<Section>, Message>
index_markdown(src) ==
    LET ast == to_mdast(src) IN
    IF ~ast.ok THEN Err
    ELSE Ok(flush(for_nodes(Locals(None, <<>>), ast.val.children)).sections)

----------------------------------------------------------------------------
(* Inputs. *)

StrA == <<"a">>
StrB == <<"b">>

\* a list with a fenced code block nested in its item
NestedCodeList ==
    List(<<ListItem(<<Paragraph(<<Text(StrA)>>), Code(Some(<<"r">>), None, StrB)>>)>>)

TopNodes ==
    { Heading(1, <<Text(StrA)>>),
      Heading(2, <<Text(StrA)>>),
      Heading(2, <<Emphasis(<<Text(StrB)>>), InlineCode(StrA)>>),
      Heading(1, <<Text(PreambleTitle)>>),
      Paragraph(<<Text(StrA), Strong(<<Text(StrB)>>)>>),
      Paragraph(<<Text(<<" ">>)>>),
      Code(None, None, <<>>),
      Code(Some(<<"r">>), Some(<<"m">>), <<" ", "a", "\n">>),
      ThematicBreak,
      Blockquote(<<Paragraph(<<Text(StrB)>>)>>),
      NestedCodeList,
      Root(<<Text(StrA)>>) }

Documents == UNION { [1..n -> TopNodes] : n \in 0..MaxNodes }

----------------------------------------------------------------------------
(* The variables of a function that is not running. *)

SegIdle ==
    /\ nodes = <<>>
    /\ i = 1
    /\ current = None
    /\ sections = <<>>

FlatIdle ==
    /\ fnode = ThematicBreak
    /\ fout = <<>>

ArgIdle ==
    /\ args = <<>>
    /\ parsed = None

WalkIdle ==
    /\ inputs = <<>>
    /\ max_depth = None
    /\ src_of = <<>>
    /\ next_input = 1
    /\ stack = <<>>
    /\ docs = <<>>
    /\ stdout = <<>>
    /\ exit_code = None

----------------------------------------------------------------------------
(* index_markdown as a state machine: one action per arm of the match. *)

Init ==
    /\ nodes \in Documents
    /\ i = 1
    /\ current = None
    /\ sections = <<>>
    /\ pc = "loop"
    /\ FlatIdle
    /\ WalkIdle
    /\ ArgIdle

AtNode == pc = "loop" /\ i <= Len(nodes)

Advance(st) ==
    /\ current' = st.current
    /\ sections' = st.sections
    /\ i' = i + 1
    /\ UNCHANGED <<nodes, pc, flatVars, walkVars, argVars>>

OnHeading ==
    /\ AtNode
    /\ nodes[i].kind = "Heading"
    /\ Advance(heading_arm(Locals(current, sections), nodes[i]))

OnParagraph ==
    /\ AtNode
    /\ nodes[i].kind = "Paragraph"
    /\ Advance(text_arm(Locals(current, sections), nodes[i]))

OnCode ==
    /\ AtNode
    /\ nodes[i].kind = "Code"
    /\ Advance(code_arm(Locals(current, sections), nodes[i]))

OnExtraText ==
    /\ AtNode
    /\ nodes[i].kind \in ExtraTextKinds
    /\ Advance(text_arm(Locals(current, sections), nodes[i]))

OnRoot ==
    /\ AtNode
    /\ nodes[i].kind = "Root"
    /\ Advance(Locals(current, sections))

Flush ==
    /\ pc = "loop"
    /\ i > Len(nodes)
    /\ current' = flush(Locals(current, sections)).current
    /\ sections' = flush(Locals(current, sections)).sections
    /\ pc' = "done"
    /\ UNCHANGED <<nodes, i, flatVars, walkVars, argVars>>

Next ==
    \/ OnHeading
    \/ OnParagraph
    \/ OnCode
    \/ OnExtraText
    \/ OnRoot
    \/ Flush

Spec == Init /\ [][Next]_vars

----------------------------------------------------------------------------
(* node_to_plain_text on its own: every tree of at most MaxSize nodes. *)

Leaves ==
    { Text(StrA), InlineCode(StrB), Code(None, None, <<"c">>), ThematicBreak }

WrapKinds == {"Emphasis", "ListItem"}

RECURSIVE TreesOfSize(_)
RECURSIVE ForestsOfSize(_)

\* the lists of trees with n nodes in all
ForestsOfSize(n) ==
    IF n = 0 THEN { <<>> }
    ELSE UNION { { <<t>> \o f : t \in TreesOfSize(k), f \in ForestsOfSize(n - k) }
                    : k \in 1..n }

\* the trees with n nodes
TreesOfSize(n) ==
    IF n = 1 THEN Leaves \cup { Node(w, 0, None, None, <<>>, <<>>) : w \in WrapKinds }
    ELSE { Node(w, 0, None, None, <<>>, f) : w \in WrapKinds, f \in ForestsOfSize(n - 1) }

Trees == UNION { TreesOfSize(n) : n \in 1..MaxSize }

InitFlatten ==
    /\ fnode \in Trees
    /\ fout = <<>>
    /\ pc = "call"
    /\ SegIdle
    /\ WalkIdle
    /\ ArgIdle

Flatten ==
    /\ pc = "call"
    /\ fout' = node_to_plain_text(fnode)
    /\ pc' = "returned"
    /\ UNCHANGED <<segVars, fnode, walkVars, argVars>>

NextFlatten == Flatten

SpecFlatten == InitFlatten /\ [][NextFlatten]_vars

----------------------------------------------------------------------------
(* Paths are strings; the file system is a fixed tree of directories.      *)

\* Path::join / DirEntry::path
join(path, name) == path \o <<"/">> \o name

PathD == <<"d">>
NameA == <<"a", ".", "m", "d">>
NameN == <<"n", ".", "t", "x", "t">>
NameS == <<"s">>
NameC == <<"c", ".", "M", "D">>
NameT == <<"t">>
NameE == <<"e", ".", "M", "a", "r", "k", "d", "o", "w", "n">>
PathA == join(PathD, NameA)
PathN == join(PathD, NameN)
PathS == join(PathD, NameS)
PathC == join(PathS, NameC)
PathT == join(PathS, NameT)
PathE == join(PathT, NameE)
NameH == <<".", "m", "d">>
PathH == join(PathT, NameH)
PathR == <<"r", ".", "m", "d">>

\* what fs::read_dir(path) lists
FsEntries(path) ==
    IF path = PathD THEN {NameA, NameN, NameS}
    ELSE IF path = PathS THEN {NameC, NameT}
    ELSE IF path = PathT THEN {NameE, NameH}
    ELSE {}

\* Path::is_dir
is_dir(path) == path \in {PathD, PathS, PathT}

\* the files that fs::read_to_string is asked for
ReadableFiles == {PathA, PathC, PathE, PathR}

\* the largest k with s[k] = c, 0 when there is none
LastIndexOf(s, c) ==
    IF \E k \in 1..Len(s) : s[k] = c
    THEN CHOOSE k \in 1..Len(s) : s[k] = c /\ \A j \in (k + 1)..Len(s) : s[j] # c
    ELSE 0

\* Path::file_name, for a path that does not end in / or ..
file_name(path) == SubSeq(path, LastIndexOf(path, "/") + 1, Len(path))

\* Path::extension: what follows the last dot of the file name; None
\* without a dot, and when the only dot starts the name
extension(path) ==
    LET f == file_name(path)
        d == LastIndexOf(f, ".")
    IN  IF d <= 1 THEN None ELSE Some(SubSeq(f, d + 1, Len(f)))

to_ascii_lowercase_keeps(c) == c

\* u8::to_ascii_lowercase, on the letters the model uses
to_ascii_lowercase(c) ==
    IF c = "M" THEN "m" ELSE IF c = "D" THEN "d" ELSE c

\* str::eq_ignore_ascii_case
eq_ignore_ascii_case(x, y) ==
    /\ Len(x) = Len(y)
    /\ \A k \in 1..Len(x) : to_ascii_lowercase(x[k]) = to_ascii_lowercase(y[k])

is_markdown_file(path) ==
    LET ext == extension(path) IN
    IF ext = None THEN FALSE
    ELSE IF eq_ignore_ascii_case(ext[1], <<"m", "d">>) THEN TRUE
    ELSE eq_ignore_ascii_case(ext[1], <<"m", "a", "r", "k", "d", "o", "w", "n">>)

----------------------------------------------------------------------------
(* process_path.  The recursion is the stack of the calls still to run:    *)
(* a call on a directory is replaced by the calls on its entries.          *)

\* the record with each code block's value trimmed
JsonDocumentElement_trims(file_path, sec) ==
    [file_path   |-> file_path,
     header      |-> sec.title,
     text_blocks |-> sec.body_text,
     code_blocks |-> [k \in 1..Len(sec.code_blocks) |-> trim(sec.code_blocks[k].value)]]

\* the closure of process_path: |s| JsonDocumentElement { ... }
JsonDocumentElement(file_path, sec) ==
    [file_path   |-> file_path,
     header      |-> sec.title,
     text_blocks |-> sec.body_text,
     code_blocks |-> [k \in 1..Len(sec.code_blocks) |-> sec.code_blocks[k].value]]

\* sections.into_iter().map(...).collect()
file_docs_remembers(file_path, secs) ==
    [k \in 1..Len(secs) |->
        JsonDocumentElement(IF docs = <<>> THEN file_path ELSE docs[Len(docs)].file_path,
                            secs[k])]

file_docs(file_path, secs) ==
    [k \in 1..Len(secs) |-> JsonDocumentElement(file_path, secs[k])]

\* a pending call process_path(path, docs, depth, max_depth); entry_err
\* marks the place of a directory entry that could not be read
Call(path, depth) == [path |-> path, depth |-> depth, entry_err |-> FALSE]
BadEntry(path, depth) == [path |-> path, depth |-> depth, entry_err |-> TRUE]

\* the orders in which read_dir may list a set of entries
Orders(S) ==
    { f \in [1..Cardinality(S) -> S] : \A x \in S : \E k \in 1..Cardinality(S) : f[k] = x }

Sources ==
    { Source(FALSE, <<Paragraph(<<Text(StrB)>>),
                      Heading(1, <<Text(StrA)>>),
                      Code(Some(<<"r">>), Some(<<"m">>), <<" ", "a", "\n">>),
                      Paragraph(<<Text(StrA)>>),
                      Code(None, None, StrB)>>),
      Source(FALSE, <<Heading(2, <<InlineCode(StrB)>>)>>),
      Source(TRUE, <<>>) }

\* the command lines: a directory, a markdown file and a text file, alone
\* and in pairs
InputLists ==
    { <<PathD>>, <<PathR>>, <<PathN>>,
      <<PathR, PathD>>, <<PathD, PathR>>, <<PathN, PathR>> }

InitWalk ==
    /\ inputs \in InputLists
    /\ max_depth \in {None} \cup { Some(n) : n \in 0..MaxLimit }
    /\ src_of \in [ReadableFiles -> Sources]
    /\ next_input = 1
    /\ stack = <<>>
    /\ docs = <<>>
    /\ stdout = <<>>
    /\ exit_code = None
    /\ pc = "main"
    /\ SegIdle
    /\ FlatIdle
    /\ ArgIdle

\* for path in &existing_inputs { process_path(path, &mut all_docs, 0, max_depth)?; }
MainCall ==
    /\ pc = "main"
    /\ next_input <= Len(inputs)
    /\ stack' = <<Call(inputs[next_input], 0)>>
    /\ next_input' = next_input + 1
    /\ pc' = "walk"
    /\ UNCHANGED <<inputs, max_depth, src_of, docs, stdout, exit_code, segVars, flatVars, argVars>>

\* the innermost call returns Ok(())
Return(rest) ==
    /\ stack' = rest
    /\ pc' = IF rest = <<>> THEN "main" ELSE "walk"

Exit1_carries_on ==
    /\ Return(Tail(stack))
    /\ UNCHANGED <<inputs, max_depth, src_of, next_input, docs, stdout, exit_code,
                   segVars, flatVars, argVars>>

\* std::process::exit(1), and main returning the Err of process_path
Exit1 ==
    /\ exit_code' = Some(1)
    /\ pc' = "exit"
    /\ UNCHANGED <<inputs, max_depth, src_of, next_input, stack, docs, stdout,
                   segVars, flatVars, argVars>>

Running == pc = "walk" /\ ~stack[1].entry_err

WithinDepth_strict == IF max_depth = None THEN TRUE ELSE stack[1].depth < max_depth[1]

WithinDepth == IF max_depth = None THEN TRUE ELSE stack[1].depth <= max_depth[1]

\* "If a max depth is defined and we are past it, stop recursion"
PastDepth ==
    /\ Running
    /\ ~WithinDepth
    /\ Return(Tail(stack))
    /\ UNCHANGED <<inputs, max_depth, src_of, next_input, docs, stdout, exit_code,
                   segVars, flatVars, argVars>>

\* path.is_dir(), read_dir succeeds: the entries, in the order read_dir
\* gives them, up to the first entry that cannot be read
ReadDir ==
    /\ Running
    /\ WithinDepth
    /\ is_dir(stack[1].path)
    /\ \E order \in Orders(FsEntries(stack[1].path)) :
          \E bad \in 0..Len(order) :
             LET good == IF bad = 0 THEN Len(order) ELSE bad - 1
                 calls == [k \in 1..good |->
                              Call(join(stack[1].path, order[k]), stack[1].depth + 1)]
                 upto == IF bad = 0 THEN calls
                         ELSE Append(calls, BadEntry(stack[1].path, stack[1].depth))
             IN  Return(upto \o Tail(stack))
    /\ UNCHANGED <<inputs, max_depth, src_of, next_input, docs, stdout, exit_code,
                   segVars, flatVars, argVars>>

\* "Failed to read directory {}"
ReadDirFails ==
    /\ Running
    /\ WithinDepth
    /\ is_dir(stack[1].path)
    /\ Exit1

\* "Failed to read directory entry in {}"
EntryFails ==
    /\ pc = "walk"
    /\ stack[1].entry_err
    /\ Exit1

\* a markdown file: read, indexed, its records appended to docs
IndexFile ==
    /\ Running
    /\ WithinDepth
    /\ ~is_dir(stack[1].path)
    /\ is_markdown_file(stack[1].path)
    /\ LET src == src_of[stack[1].path]
           res == index_markdown(src)
       IN  /\ res.ok
           /\ docs' = docs \o file_docs(stack[1].path, res.val)
    /\ Return(Tail(stack))
    /\ UNCHANGED <<inputs, max_depth, src_of, next_input, stdout, exit_code,
                   segVars, flatVars, argVars>>

\* "Failed to read {}"
ReadFileFails ==
    /\ Running
    /\ WithinDepth
    /\ ~is_dir(stack[1].path)
    /\ is_markdown_file(stack[1].path)
    /\ Exit1

\* index_markdown(&src)? returns the parser's error, and so does main
ParseFails ==
    /\ Running
    /\ WithinDepth
    /\ ~is_dir(stack[1].path)
    /\ is_markdown_file(stack[1].path)
    /\ ~index_markdown(src_of[stack[1].path]).ok
    /\ Exit1

\* neither a directory nor a markdown file: nothing to do
SkipFile ==
    /\ Running
    /\ WithinDepth
    /\ ~is_dir(stack[1].path)
    /\ ~is_markdown_file(stack[1].path)
    /\ Return(Tail(stack))
    /\ UNCHANGED <<inputs, max_depth, src_of, next_input, docs, stdout, exit_code,
                   segVars, flatVars, argVars>>

\* serde_json::to_writer_pretty(io::stdout(), &all_docs); println!(); Ok(())
MainWrite ==
    /\ pc = "main"
    /\ next_input > Len(inputs)
    /\ stdout' = stdout \o <<[json |-> docs], "\n">>
    /\ exit_code' = Some(0)
    /\ pc' = "exit"
    /\ UNCHANGED <<inputs, max_depth, src_of, next_input, stack, docs, segVars, flatVars, argVars>>

NextWalk ==
    \/ MainCall
    \/ PastDepth
    \/ ReadDir
    \/ ReadDirFails
    \/ EntryFails
    \/ IndexFile
    \/ ReadFileFails
    \/ ParseFails
    \/ SkipFile
    \/ MainWrite

SpecWalk == InitWalk /\ [][NextWalk]_vars

----------------------------------------------------------------------------
(* Vocabulary of the properties, defined on the input and on the output    *)
(* without the operators of the segmenter.                                 *)

RECURSIVE Concat(_)
Concat(ss) == IF ss = <<>> THEN <<>> ELSE Head(ss) \o Concat(Tail(ss))

\* the reference definition of flattening: the literal value of a Text or
\* InlineCode node, else the children's flattened texts, concatenated
RECURSIVE FlattenRef(_)
FlattenRef(n) ==
    IF n.kind \in {"Text", "InlineCode"} THEN n.value
    ELSE Concat([k \in 1..Len(n.children) |-> FlattenRef(n.children[k])])

Blank(s) == \A k \in 1..Len(s) : s[k] \in Whitespace

IsHeading(n) == n.kind = "Heading"

\* a node that puts something into a section
Contributes(n) ==
    \/ n.kind = "Code"
    \/ n.kind \notin {"Heading", "Code", "Root"} /\ ~Blank(FlattenRef(n))

\* the position of the first heading, Len + 1 when there is none
FirstHeading(ns) ==
    IF \E k \in 1..Len(ns) : IsHeading(ns[k])
    THEN CHOOSE k \in 1..Len(ns) :
            IsHeading(ns[k]) /\ \A j \in 1..(k - 1) : ~IsHeading(ns[j])
    ELSE Len(ns) + 1

IsPreamble(sec) == sec.level = 0 /\ sec.title = PreambleTitle

PreambleCount(secs) == Cardinality({k \in 1..Len(secs) : IsPreamble(secs[k])})

Done == pc = "done"

\* the sections built so far: the finished ones, then the open one
Built == sections \o current

----------------------------------------------------------------------------
(* C1 *)

\* C1 as stated: whenever a non-heading node precedes the first heading,
\* the output holds exactly one preamble section (level 0, title
\* "(preamble)") and it is the first element.
C1_AnyNodeOpensPreamble ==
    (Done /\ \E j \in 1..(FirstHeading(nodes) - 1) : ~IsHeading(nodes[j]))
        => /\ Len(sections) >= 1
           /\ IsPreamble(sections[1])
           /\ PreambleCount(sections) = 1

\* C1, amended: whenever a top-level code block, or a non-heading node whose
\* flattened text is not whitespace-only, precedes the first heading, the
\* output holds exactly one preamble section (level 0, title "(preamble)")
\* and it is the first element.
C1_PreambleFirst ==
    (Done /\ \E j \in 1..(FirstHeading(nodes) - 1) : Contributes(nodes[j]))
        => /\ Len(sections) >= 1
           /\ IsPreamble(sections[1])
           /\ PreambleCount(sections) = 1

\* a finished run: text before a heading, preamble and heading section out
C1_Witness ==
    /\ Done
    /\ Len(nodes) >= 2
    /\ nodes[1].kind = "Paragraph" /\ Contributes(nodes[1])
    /\ IsHeading(nodes[2])
    /\ Len(sections) >= 2
    /\ IsPreamble(sections[1])

----------------------------------------------------------------------------
(* C2 *)

\* C2: the output holds at most one preamble section; when it holds one it
\* is the first element and some content node (a code block, or a
\* non-heading node with text that is not blank) precedes the first
\* heading; when the first node is a heading there is no preamble and the
\* first section has that heading's depth and flattened text.
C2_AtMostOnePreamble ==
    Done =>
        /\ PreambleCount(sections) <= 1
        /\ \A k \in 1..Len(sections) : IsPreamble(sections[k]) => k = 1
        /\ PreambleCount(sections) = 1
              => \E j \in 1..(FirstHeading(nodes) - 1) : Contributes(nodes[j])
        /\ (nodes # <<>> /\ IsHeading(nodes[1]))
              => /\ PreambleCount(sections) = 0
                 /\ Len(sections) >= 1
                 /\ sections[1].level = nodes[1].depth
                 /\ sections[1].title = FlattenRef(nodes[1])

\* a finished run that starts with a heading named "(preamble)" and has
\* content after it
C2_Witness ==
    /\ Done
    /\ Len(nodes) >= 2
    /\ IsHeading(nodes[1])
    /\ FlattenRef(nodes[1]) = PreambleTitle
    /\ Contributes(nodes[2])
    /\ PreambleCount(sections) = 0
    /\ Len(sections) = 1

----------------------------------------------------------------------------
(* C3 *)

FromHeading(sec) == sec.level >= 1

\* <<depth, flattened text>> of the headings of a node list, in order
HeadingSig(ns) ==
    LET hs == SelectSeq(ns, IsHeading)
    IN  [k \in 1..Len(hs) |-> <<hs[k].depth, FlattenRef(hs[k])>>]

\* <<level, title>> of the sections of level >= 1, in order
SectionSig(secs) ==
    LET ss == SelectSeq(secs, FromHeading)
    IN  [k \in 1..Len(ss) |-> <<ss[k].level, ss[k].title>>]

\* the nodes the loop has handled
Processed == SubSeq(nodes, 1, i - 1)

\* C3: at every point of the run the sections of level >= 1 built so far
\* are, one for one and in order, the headings handled so far, each with
\* the heading's depth as level and its flattened text as title (so no
\* heading nests into or merges with a section, and no level changes after
\* creation); the finished output has one such section per heading.
C3_FlatInOrder ==
    /\ SectionSig(Built) = HeadingSig(Processed)
    /\ Done => SectionSig(sections) = HeadingSig(nodes)

\* a finished run over a heading of depth 1, then deeper headings
C3_Witness ==
    /\ Done
    /\ Len(nodes) = 3
    /\ IsHeading(nodes[1]) /\ nodes[1].depth = 1
    /\ IsHeading(nodes[2]) /\ nodes[2].depth = 2
    /\ IsHeading(nodes[3]) /\ nodes[3].depth = 2
    /\ Len(sections) = 3
    /\ sections[2].level = 2

----------------------------------------------------------------------------
(* C4 *)

HeadingsUpTo(ns, k) == Cardinality({j \in 1..k : IsHeading(ns[j])})

\* C4: a document of N >= 1 headings and nothing else yields exactly N
\* sections; and in any document, a heading followed directly by another
\* heading or by the end of input has its own section in the output, with
\* empty body_text and empty code_blocks.
C4_EmptySectionsKept ==
    Done =>
        /\ (nodes # <<>> /\ \A k \in 1..Len(nodes) : IsHeading(nodes[k]))
              => Len(sections) = Len(nodes)
        /\ \A k \in 1..Len(nodes) :
              (IsHeading(nodes[k]) /\ (k = Len(nodes) \/ IsHeading(nodes[k + 1])))
                 => LET at == PreambleCount(sections) + HeadingsUpTo(nodes, k) IN
                    /\ at <= Len(sections)
                    /\ sections[at].level = nodes[k].depth
                    /\ sections[at].body_text = <<>>
                    /\ sections[at].code_blocks = <<>>

\* a finished run over three headings in a row
C4_Witness ==
    /\ Done
    /\ Len(nodes) = 3
    /\ \A k \in 1..3 : IsHeading(nodes[k])
    /\ Len(sections) = 3
    /\ \A k \in 1..3 : sections[k].body_text = <<>> /\ sections[k].code_blocks = <<>>

----------------------------------------------------------------------------
(* C5 *)

\* C5: in every state of the segmenter, no body_text entry of the open
\* section or of a finished section is empty or whitespace-only.
C5_NoBlankBodyText ==
    \A k \in 1..Len(Built) :
        \A e \in 1..Len(Built[k].body_text) : ~Blank(Built[k].body_text[e])

\* mid-run: a section with text is open and a whitespace-only paragraph has
\* just been handled
C5_Witness ==
    /\ pc = "loop"
    /\ i >= 3
    /\ nodes[i - 1].kind = "Paragraph"
    /\ FlattenRef(nodes[i - 1]) # <<>>
    /\ Blank(FlattenRef(nodes[i - 1]))
    /\ current # None
    /\ current[1].body_text # <<>>

----------------------------------------------------------------------------
(* C6 *)

OnlyBlankNodes(ns) ==
    \A k \in 1..Len(ns) :
        /\ ~IsHeading(ns[k])
        /\ ns[k].kind # "Code"
        /\ Blank(FlattenRef(ns[k]))

\* C6: for a document with no heading, no top-level code block and only
\* nodes whose flattened text is empty or whitespace-only, no section is
\* ever opened and the result is the empty list.
C6_BlankYieldsNothing ==
    OnlyBlankNodes(nodes) => sections = <<>> /\ current = None

\* a finished run over a whitespace-only paragraph and a thematic break
C6_Witness ==
    /\ Done
    /\ Len(nodes) >= 2
    /\ OnlyBlankNodes(nodes)
    /\ \E k \in 1..Len(nodes) : nodes[k].kind = "Paragraph" /\ FlattenRef(nodes[k]) # <<>>
    /\ \E k \in 1..Len(nodes) : nodes[k].kind = "ThematicBreak"
    /\ sections = <<>>

----------------------------------------------------------------------------
(* C7 *)

\* the section a code block goes to: the open one, else a new preamble
OpenOrPreamble ==
    IF current # None THEN current[1]
    ELSE [title |-> PreambleTitle, level |-> 0, body_text |-> <<>>, code_blocks |-> <<>>]

\* C7: the step that handles a top-level code block leaves the finished
\* sections alone and leaves a section open whose title, level and
\* body_text are those of the section that was open (of a new preamble when
\* none was) and whose code_blocks are the old ones plus one record with
\* the node's lang, meta and value as they are.
C7_CodeBlockRecorded ==
    [][ (pc = "loop" /\ i <= Len(nodes) /\ nodes[i].kind = "Code")
          => /\ sections' = sections
             /\ current' # None
             /\ current'[1].title = OpenOrPreamble.title
             /\ current'[1].level = OpenOrPreamble.level
             /\ current'[1].body_text = OpenOrPreamble.body_text
             /\ current'[1].code_blocks =
                    Append(OpenOrPreamble.code_blocks,
                           [lang  |-> nodes[i].lang,
                            meta  |-> nodes[i].meta,
                            value |-> nodes[i].value])
      ]_vars

\* a finished run: a code block with surrounding whitespace opened the
\* preamble, a code block with an empty value followed
C7_Witness ==
    /\ Done
    /\ Len(nodes) >= 2
    /\ nodes[1].kind = "Code" /\ nodes[1].value # trim(nodes[1].value)
    /\ nodes[2].kind = "Code" /\ nodes[2].value = <<>>
    /\ IsPreamble(sections[1])
    /\ Len(sections[1].code_blocks) = 2
    /\ sections[1].code_blocks[1].value = nodes[1].value
    /\ sections[1].code_blocks[1].lang # None

----------------------------------------------------------------------------
(* C8 *)

\* C8: for every tree of at most MaxSize nodes node_to_plain_text returns
\* the reference flattening: the literal value of a Text or InlineCode
\* node, else the concatenation in child order, with no separator, of the
\* flattened texts of the children (the empty string without children).
C8_FlattenIsReference ==
    pc = "returned" => fout = FlattenRef(fnode)

\* returned from a wrapper around a wrapper: text and inline code came out
\* in order, the wrappers left nothing
C8_Witness ==
    /\ pc = "returned"
    /\ fnode.kind = "Emphasis"
    /\ Len(fnode.children) = 2
    /\ fnode.children[1].kind = "ListItem"
    /\ fnode.children[1].children = <<Text(StrA)>>
    /\ fnode.children[2].kind = "InlineCode"
    /\ fout = StrA \o StrB

----------------------------------------------------------------------------
(* C9 *)

\* the literal values of the code blocks below a node
RECURSIVE NestedCodeValues(_)
NestedCodeValues(n) ==
    UNION { (IF n.children[k].kind = "Code" THEN {n.children[k].value} ELSE {})
                \cup NestedCodeValues(n.children[k]) : k \in 1..Len(n.children) }

\* t occurs in s
Occurs(t, s) ==
    \E p \in 0..(Len(s) - Len(t)) : SubSeq(s, p + 1, p + Len(t)) = t

AllCodeBlocks(secs) == Concat([k \in 1..Len(secs) |-> secs[k].code_blocks])

TopLevelCode(n) == n.kind = "Code"

\* C9: the output has one code_blocks entry per top-level code block and
\* none for a nested one, and the literal text of a code block nested in a
\* container occurs in a body_text entry of the output.
C9_NestedCodeAbsorbed ==
    Done =>
        /\ Len(AllCodeBlocks(sections)) = Len(SelectSeq(nodes, TopLevelCode))
        /\ \A k \in 1..Len(nodes) :
              nodes[k].kind \notin {"Heading", "Code", "Root"}
                 => \A v \in NestedCodeValues(nodes[k]) :
                       \E s \in 1..Len(sections) :
                          \E e \in 1..Len(sections[s].body_text) :
                             Occurs(v, sections[s].body_text[e])

----------------------------------------------------------------------------
(* C10 *)

\* process_path is about to read and index a markdown file
AtMarkdownFile ==
    /\ pc = "walk"
    /\ ~stack[1].entry_err
    /\ (max_depth # None => stack[1].depth <= max_depth[1])
    /\ stack[1].path \notin {PathD, PathS, PathT}
    /\ stack[1].path \in {PathA, PathC, PathE, PathR}

\* C10: a step of process_path that indexes a markdown file appends to docs
\* one record per section of the file, in section order, with file_path the
\* file's path, header the section's title, text_blocks its body_text and
\* code_blocks the literal values of its code blocks in order, with no other
\* field; the records that were in docs stay as they were; and no other
\* step changes docs.
C10_OneRecordPerSection ==
    [][ /\ (AtMarkdownFile /\ pc' # "exit")
            => LET path == stack[1].path
                   secs == index_markdown(src_of[path]).val
               IN  /\ Len(docs') = Len(docs) + Len(secs)
                   /\ SubSeq(docs', 1, Len(docs)) = docs
                   /\ \A k \in 1..Len(secs) :
                         LET rec == docs'[Len(docs) + k] IN
                         /\ DOMAIN rec = {"file_path", "header", "text_blocks", "code_blocks"}
                         /\ rec.file_path = path
                         /\ rec.header = secs[k].title
                         /\ rec.text_blocks = secs[k].body_text
                         /\ Len(rec.code_blocks) = Len(secs[k].code_blocks)
                         /\ \A j \in 1..Len(rec.code_blocks) :
                               rec.code_blocks[j] = secs[k].code_blocks[j].value
        /\ docs' # docs => AtMarkdownFile
      ]_vars

\* docs holds the records of two files: the preamble and the section of the
\* first, with its two code blocks as bare values, then those of another
C10_Witness ==
    /\ Len(docs) >= 3
    /\ docs[1].header = PreambleTitle
    /\ docs[2].text_blocks = <<StrA>>
    /\ docs[2].code_blocks = << <<" ", "a", "\n">>, StrB >>
    /\ docs[3].file_path # docs[1].file_path

----------------------------------------------------------------------------
(* C15 *)

\* some node before the first heading of ns opens the preamble
PreambleOpened(ns) == \E j \in 1..(FirstHeading(ns) - 1) : Contributes(ns[j])

\* the sections that a node list opens: one per heading, and the preamble
OpenedCount(ns) ==
    HeadingsUpTo(ns, Len(ns)) + (IF PreambleOpened(ns) THEN 1 ELSE 0)

\* C15: a step changes the output only by appending the open section, and
\* only at a heading or at the end of input; an open section is after every
\* step either still open or appended; the sections out plus the open one
\* are as many as the sections opened so far; and at the end no section is
\* open and the output has one section per heading, plus one when a
\* preamble was opened.
C15_EachSectionOnce ==
    [][ /\ sections' # sections
            => /\ current # None
               /\ sections' = Append(sections, current[1])
               /\ (i > Len(nodes) \/ IsHeading(nodes[i]))
        /\ current # None
            => \/ sections' = Append(sections, current[1])
               \/ /\ sections' = sections
                  /\ current' # None
                  /\ current'[1].title = current[1].title
                  /\ current'[1].level = current[1].level
        /\ Len(sections') + Len(current') = OpenedCount(SubSeq(nodes, 1, i' - 1))
        /\ pc' = "done"
            => /\ current' = None
               /\ Len(sections') = OpenedCount(nodes)
      ]_vars

\* a finished run that opened a preamble and two heading sections
C15_Witness ==
    /\ Done
    /\ Len(nodes) = 3
    /\ PreambleOpened(nodes)
    /\ IsHeading(nodes[2])
    /\ IsHeading(nodes[3])
    /\ Len(sections) = 3
    /\ current = None

----------------------------------------------------------------------------
(* C16 *)

IsPrefix(s, t) == Len(s) <= Len(t) /\ SubSeq(t, 1, Len(s)) = s

\* what index_markdown returns for the whole node list
FinalOutput == index_markdown(Source(FALSE, nodes)).val

\* C16: every step leaves the sections already in the output as they are
\* and in place (the output before the step is a prefix of the output after
\* it), and the output after any number of nodes is a prefix of the final
\* output.
C16_OutputAppendOnly ==
    [][ /\ IsPrefix(sections, sections')
        /\ IsPrefix(sections', FinalOutput)
      ]_vars

\* mid-run: a section was moved to the output, and the one open now has
\* taken text or code since
C16_Witness ==
    /\ pc = "loop"
    /\ i = 4
    /\ Len(sections) = 1
    /\ sections[1].body_text # <<>>
    /\ current # None
    /\ current[1].body_text # <<>>
    /\ ~IsHeading(nodes[3])

----------------------------------------------------------------------------
(* C17 *)

\* a top-level node that gives body text: not a heading, not a code block,
\* flattened text not blank (a Root below the root, which the parser does
\* not produce, gives none)
TextNode(n) ==
    n.kind \notin {"Heading", "Code", "Root"} /\ ~Blank(FlattenRef(n))

\* the flattened texts of the text nodes of ns, in order
TextsOf(ns) ==
    LET t == SelectSeq(ns, TextNode)
    IN  [k \in 1..Len(t) |-> FlattenRef(t[k])]

\* the records of the top-level code blocks of ns, in order
CodesOf(ns) ==
    LET c == SelectSeq(ns, TopLevelCode)
    IN  [k \in 1..Len(c) |-> [lang |-> c[k].lang, meta |-> c[k].meta, value |-> c[k].value]]

\* the positions of the headings of ns, ascending
HeadPos(ns) ==
    LET AtHeading(k) == IsHeading(ns[k])
    IN  SelectSeq([k \in 1..Len(ns) |-> k], AtHeading)

AllBodyText(secs) == Concat([k \in 1..Len(secs) |-> secs[k].body_text])

\* the nodes that belong to the s-th section of the output: those before
\* the first heading for the preamble, else those after the section's
\* heading and before the next heading
NodesOfSection(ns, s) ==
    LET pre == IF PreambleOpened(ns) THEN 1 ELSE 0
        hp  == HeadPos(ns)
        j   == s - pre
    IN  IF j = 0 THEN SubSeq(ns, 1, FirstHeading(ns) - 1)
        ELSE SubSeq(ns, hp[j] + 1, IF j < Len(hp) THEN hp[j + 1] - 1 ELSE Len(ns))

\* C17: in the finished output the body_text lists, concatenated in section
\* order, are the flattened texts of the top-level nodes that are neither
\* heading nor code block and whose text is not blank, in document order;
\* the code_blocks lists, concatenated, are the top-level code blocks in
\* document order; and each section holds exactly the entries of the nodes
\* between its heading and the next (before the first heading, for the
\* preamble).
C17_ContentConserved ==
    Done =>
        /\ AllBodyText(sections) = TextsOf(nodes)
        /\ AllCodeBlocks(sections) = CodesOf(nodes)
        /\ Len(sections) = OpenedCount(nodes)
        /\ \A s \in 1..Len(sections) :
              /\ sections[s].body_text = TextsOf(NodesOfSection(nodes, s))
              /\ sections[s].code_blocks = CodesOf(NodesOfSection(nodes, s))

\* a finished run: text in the preamble, then a heading with a code block
C17_Witness ==
    /\ Done
    /\ Len(nodes) = 3
    /\ TextNode(nodes[1])
    /\ IsHeading(nodes[2])
    /\ nodes[3].kind = "Code"
    /\ Len(sections) = 2
    /\ sections[1].body_text = <<FlattenRef(nodes[1])>>
    /\ Len(sections[2].code_blocks) = 1

----------------------------------------------------------------------------
(* C19 *)

\* C19: at every point of the run a section has level 0 exactly when it is
\* the synthetic preamble (the first section, opened by content before the
\* first heading); every other section has the depth of its heading, which
\* is at least 1, as level, whatever its title.
C19_LevelZeroIsPreamble ==
    LET pre == IF PreambleOpened(Processed) THEN 1 ELSE 0
        hp  == HeadPos(Processed)
    IN  \A k \in 1..Len(Built) :
           /\ Built[k].level = 0 <=> (k = 1 /\ pre = 1)
           /\ Built[k].level = 0 => Built[k].title = PreambleTitle
           /\ Built[k].level # 0
                 => /\ Built[k].level >= 1
                    /\ Built[k].level = Processed[hp[k - pre]].depth
                    /\ Built[k].title = FlattenRef(Processed[hp[k - pre]])

\* a finished run: the synthetic preamble, then the section of a real
\* heading with the text "(preamble)"
C19_Witness ==
    /\ Done
    /\ Len(sections) = 2
    /\ sections[1].title = PreambleTitle /\ sections[1].level = 0
    /\ sections[2].title = PreambleTitle /\ sections[2].level = 1

----------------------------------------------------------------------------
\* main.rs: the command line

\* a failed Result<_, String>, with the message it carries
ErrMsg(msg) == [ok |-> FALSE, val |-> <<msg>>]

DepthLong  == <<"-", "-", "d", "e", "p", "t", "h">>
DepthShort == <<"-", "d">>

\* str::starts_with(char)
starts_with(s, c) == IF s = <<>> THEN FALSE ELSE s[1] = c

DigitChars == <<"0", "1", "2", "3", "4", "5", "6", "7", "8", "9">>

\* char::to_digit(10), as an Option
to_digit(c) ==
    IF \E k \in 1..Len(DigitChars) : DigitChars[k] = c
    THEN Some((CHOOSE k \in 1..Len(DigitChars) : DigitChars[k] = c) - 1)
    ELSE None

\* the digit loop of usize::from_str: the first character that is no digit
\* fails the parse.  The tokens of the model are a few characters long, far
\* below the length at which the accumulator would pass usize::MAX.
RECURSIVE from_digits(_, _)
from_digits(s, acc) ==
    IF s = <<>> THEN Ok(acc)
    ELSE IF to_digit(Head(s)) = None THEN Err
    ELSE from_digits(Tail(s), acc * 10 + to_digit(Head(s))[1])

\* str::parse::<usize>: an optional '+', then at least one digit
parse_usize(s) ==
    IF s = <<>> THEN Err
    ELSE LET digits == IF Head(s) = "+" THEN Tail(s) ELSE s
         IN  IF digits = <<>> THEN Err ELSE from_digits(digits, 0)

usage(program) == <<"Usage", program>>

parse_args_flags_anywhere(argv) ==
    IF Len(argv) < 2 THEN ErrMsg(usage(argv[1]))
    ELSE
    LET all  == Tail(argv)
        n    == Len(all)
        pair == IF n >= 2 THEN all[n - 1] \in {DepthLong, DepthShort} ELSE FALSE
        num  == IF pair THEN parse_usize(all[n]) ELSE Err
        inputs_slice == IF pair THEN SubSeq(all, 1, n - 2) ELSE all
    IN  IF all[n] \in {DepthLong, DepthShort} THEN ErrMsg(<<"Expected a value">>)
        ELSE IF pair /\ ~num.ok THEN ErrMsg(<<"Invalid depth value", all[n]>>)
        ELSE IF inputs_slice = <<>> THEN ErrMsg(usage(argv[1]))
        ELSE Ok(<<inputs_slice, IF pair THEN Some(num.val) ELSE None>>)

\* fn parse_args(args: &[String]) -> Result<(Vec<String>, Option<usize>), String>
parse_args(argv) ==
    IF Len(argv) < 2 THEN ErrMsg(usage(argv[1]))
    ELSE
    LET all  == Tail(argv)
        n    == Len(all)
        pair == IF n >= 2 THEN all[n - 1] \in {DepthLong, DepthShort} ELSE FALSE
        num  == IF pair THEN parse_usize(all[n]) ELSE Err
        inputs_slice == IF pair THEN SubSeq(all, 1, n - 2) ELSE all
    IN  IF all[n] \in {DepthLong, DepthShort} THEN ErrMsg(<<"Expected a value">>)
        ELSE IF pair /\ ~num.ok THEN ErrMsg(<<"Invalid depth value", all[n]>>)
        ELSE IF inputs_slice = <<>> THEN ErrMsg(usage(argv[1]))
        ELSE IF \E k \in 1..Len(inputs_slice) : starts_with(inputs_slice[k], "-")
             THEN ErrMsg(<<"Unknown flag", usage(argv[1])>>)
        ELSE Ok(<<inputs_slice, IF pair THEN Some(num.val) ELSE None>>)

\* args[0]
Program == <<"m", "i">>

\* the words a command line is made of
ArgTokens ==
    { <<"a">>, <<>>, DepthLong, DepthShort, <<"2">>, <<"+", "1">>,
      <<"-", "1">>, <<"1", "x">>, <<"-", "x">> }

TokenLists(n) == [1..n -> ArgTokens]

InitArgs ==
    /\ \E n \in 0..MaxArgs : \E rest \in TokenLists(n) : args = <<Program>> \o rest
    /\ parsed = None
    /\ pc = "args"
    /\ SegIdle
    /\ FlatIdle
    /\ WalkIdle

\* parse_args(&args)
ParseArgs ==
    /\ pc = "args"
    /\ parsed' = Some(parse_args(args))
    /\ pc' = "parsed"
    /\ UNCHANGED <<args, nodes, i, current, sections, flatVars, walkVars>>

NextArgs == ParseArgs

SpecArgs == InitArgs /\ [][NextArgs]_vars

----------------------------------------------------------------------------
\* C12

\* a token that reads as an unsigned decimal number
IsUnsigned(t) ==
    LET d == IF starts_with(t, "+") THEN Tail(t) ELSE t
    IN  /\ d # <<>>
        /\ \A k \in 1..Len(d) : to_digit(d[k]) # None

RECURSIVE DecimalValue(_)
DecimalValue(d) ==
    IF d = <<>> THEN 0
    ELSE DecimalValue(SubSeq(d, 1, Len(d) - 1)) * 10 + to_digit(d[Len(d)])[1]

NumberOf(t) == DecimalValue(IF starts_with(t, "+") THEN Tail(t) ELSE t)

IsDepthFlag(t) == t = DepthLong \/ t = DepthShort

\* a non-empty list of tokens none of which starts with '-'
PlainInputs(ts) == ts # <<>> /\ \A k \in 1..Len(ts) : ~starts_with(ts[k], "-")

\* the tokens end with a pair (--depth or -d, N)
HasDepthPair(ts) ==
    /\ Len(ts) >= 2
    /\ IsDepthFlag(ts[Len(ts) - 1])
    /\ IsUnsigned(ts[Len(ts)])

WithoutPair(ts) == SubSeq(ts, 1, Len(ts) - 2)

\* C12: parse_args returns Ok exactly when the tokens after the program
\* name are a non-empty list of tokens not starting with '-', optionally
\* followed by one trailing pair (--depth or -d, N) with N an unsigned
\* number; the result is those tokens in order with depth Some(N), or None
\* without the pair.  Every other command line yields Err: a depth flag as
\* last token, a depth flag before an input, a non-numeric depth, no inputs.
C12_ParseArgsContract ==
    parsed # None =>
        LET r  == parsed[1]
            ts == Tail(args)
        IN  /\ PlainInputs(ts) => r = Ok(<<ts, None>>)
            /\ (HasDepthPair(ts) /\ PlainInputs(WithoutPair(ts)))
                   => r = Ok(<<WithoutPair(ts), Some(NumberOf(ts[Len(ts)]))>>)
            /\ r.ok => \/ PlainInputs(ts)
                       \/ HasDepthPair(ts) /\ PlainInputs(WithoutPair(ts))
            /\ ts = <<>> => ~r.ok
            /\ (ts # <<>> /\ IsDepthFlag(ts[Len(ts)])) => ~r.ok
            /\ (\E k \in 1..(Len(ts) - 2) : IsDepthFlag(ts[k])) => ~r.ok
            /\ (Len(ts) >= 2 /\ IsDepthFlag(ts[Len(ts) - 1]) /\ ~IsUnsigned(ts[Len(ts)]))
                   => ~r.ok

\* two inputs and a depth pair were accepted
C12_Witness ==
    /\ parsed # None
    /\ args = <<Program, <<"a">>, <<>>, DepthShort, <<"+", "1">>>>
    /\ parsed[1] = Ok(<<(<<(<<"a">>), <<>>>>), Some(1)>>)

----------------------------------------------------------------------------
\* main.rs: main from its first line

\* a path that names nothing
PathZ == <<"z">>

\* Path::exists
exists(path) == is_dir(path) \/ path \in ReadableFiles \/ path \in {PathN, PathH}

\* existing_inputs and missing_inputs after the loop over the inputs
existing_inputs(ins) ==
    LET Found(p) == exists(p) IN SelectSeq(ins, Found)

missing_inputs_forgotten(ins) == <<>>

missing_inputs(ins) ==
    LET Lost(p) == ~exists(p) IN SelectSeq(ins, Lost)

\* the positional part of the command lines
MainInputs ==
    { <<>>, <<PathD>>, <<PathR, PathD>>, <<PathN>>, <<PathZ>>, <<PathZ, PathD>>,
      <<PathD, PathZ>>, <<DepthShort, PathD>> }

\* what follows the positional part
MainOptions ==
    { <<>>, <<DepthLong>>, <<DepthShort, <<"x">>>> }
    \cup { <<f, <<DigitChars[n + 1]>>>> : f \in {DepthLong, DepthShort}, n \in 0..MaxLimit }

InitMain ==
    /\ \E ins \in MainInputs : \E opt \in MainOptions : args = <<Program>> \o ins \o opt
    /\ parsed = None
    /\ inputs = <<>>
    /\ max_depth = None
    /\ src_of \in [ReadableFiles -> Sources]
    /\ next_input = 1
    /\ stack = <<>>
    /\ docs = <<>>
    /\ stdout = <<>>
    /\ exit_code = None
    /\ pc = "start"
    /\ SegIdle
    /\ FlatIdle

\* Err(msg) => { eprintln!("{}", msg); std::process::exit(1); }
MainArgsErr ==
    /\ pc = "start"
    /\ ~parse_args(args).ok
    /\ parsed' = Some(parse_args(args))
    /\ exit_code' = Some(1)
    /\ pc' = "exit"
    /\ UNCHANGED <<args, inputs, max_depth, src_of, next_input, stack, docs, stdout,
                   segVars, flatVars>>

\* "The following input paths do not exist:" and std::process::exit(1)
MainMissing ==
    /\ pc = "start"
    /\ parse_args(args).ok
    /\ missing_inputs(parse_args(args).val[1]) # <<>>
    /\ parsed' = Some(parse_args(args))
    /\ exit_code' = Some(1)
    /\ pc' = "exit"
    /\ UNCHANGED <<args, inputs, max_depth, src_of, next_input, stack, docs, stdout,
                   segVars, flatVars>>

\* the arguments parse and every input exists: let mut all_docs = Vec::new()
MainStart ==
    /\ pc = "start"
    /\ parse_args(args).ok
    /\ missing_inputs(parse_args(args).val[1]) = <<>>
    /\ parsed' = Some(parse_args(args))
    /\ inputs' = existing_inputs(parse_args(args).val[1])
    /\ max_depth' = parse_args(args).val[2]
    /\ pc' = "main"
    /\ UNCHANGED <<args, src_of, next_input, stack, docs, stdout, exit_code,
                   segVars, flatVars>>

NextMain ==
    \/ MainArgsErr
    \/ MainMissing
    \/ MainStart
    \/ NextWalk

SpecMain == InitMain /\ [][NextMain]_vars

----------------------------------------------------------------------------
\* C11

\* the command line does not parse, or names a path that does not exist
Rejected ==
    \/ ~parse_args(args).ok
    \/ \E k \in 1..Len(parse_args(args).val[1]) : ~exists(parse_args(args).val[1][k])

\* C11: argument validation and the missing-path check finish before any
\* file or directory is read.  When parse_args fails or an input path does
\* not exist, the only step the run takes is the exit with status 1: no
\* call of process_path is made, no record is collected and nothing is
\* written to standard output.
C11_RejectedBeforeAnyRead ==
    [][ Rejected =>
            /\ pc = "start"
            /\ pc' = "exit"
            /\ exit_code' = Some(1)
            /\ inputs' = <<>>
            /\ next_input' = 1
            /\ stack' = <<>>
            /\ docs' = <<>>
            /\ stdout' = <<>> ]_vars

\* an existing directory was named before a missing path, and the run
\* ended without touching either
C11_Witness ==
    /\ args = <<Program, PathD, PathZ, DepthShort, <<"1">>>>
    /\ pc = "exit"
    /\ exit_code = Some(1)
    /\ parsed = Some(Ok(<<(<<PathD, PathZ>>), Some(1)>>))
    /\ docs = <<>>
    /\ stdout = <<>>

----------------------------------------------------------------------------
\* C13

\* the paths at and below p, each with the number of directory levels
\* between p and it
RECURSIVE Below(_, _)
Below(p, d) ==
    {<<p, d>>} \cup UNION { Below(join(p, n), d + 1) : n \in FsEntries(p) }

\* the configured maximum depth allows level d
Allowed(d) == IF max_depth = None THEN TRUE ELSE d <= max_depth[1]

\* the markdown files at an allowed level below some input
FilesInReach ==
    { q[1] : q \in { r \in UNION { Below(inputs[k], 0) : k \in 1..Len(inputs) } :
                        /\ Allowed(r[2])
                        /\ ~is_dir(r[1])
                        /\ is_markdown_file(r[1]) } }

FilesIndexed(ds) == { ds[k].file_path : k \in 1..Len(ds) }

\* the calls that a step put on top of the pending ones
Pushed == SubSeq(stack', 1, Len(stack') - Len(stack) + 1)

\* C13: the input path is at depth 0 and the depth of every pending call is
\* the number of directory levels between the input and its path.  A call
\* at a depth above the maximum returns at once: nothing is read, listed or
\* recorded.  A call at an allowed depth is handled: a directory is listed
\* and its entries are called one level deeper, a markdown file is indexed,
\* unless the run fails.  With no maximum every path below the inputs is
\* handled, so a run that succeeds has indexed exactly the markdown files at
\* an allowed depth.
C13_DepthLimit ==
    [][ /\ pc = "walk"
            => /\ next_input > 1
               /\ \A k \in 1..Len(stack) :
                     <<stack[k].path, stack[k].depth>> \in Below(inputs[next_input - 1], 0)
        /\ (pc = "main" /\ pc' = "walk")
            => stack' = <<Call(inputs[next_input], 0)>>
        /\ (pc = "walk" /\ ~stack[1].entry_err /\ ~Allowed(stack[1].depth))
            => /\ stack' = Tail(stack)
               /\ UNCHANGED <<docs, stdout, exit_code>>
        /\ (pc = "walk" /\ ~stack[1].entry_err /\ Allowed(stack[1].depth) /\ pc' # "exit")
            => IF is_dir(stack[1].path)
               THEN /\ Len(stack') >= Len(stack) - 1
                    /\ SubSeq(stack', Len(Pushed) + 1, Len(stack')) = Tail(stack)
                    /\ \A k \in 1..Len(Pushed) :
                          \/ /\ ~Pushed[k].entry_err
                             /\ Pushed[k].depth = stack[1].depth + 1
                             /\ \E n \in FsEntries(stack[1].path) :
                                   Pushed[k].path = join(stack[1].path, n)
                          \/ Pushed[k].entry_err /\ k = Len(Pushed)
                    /\ \/ \E k \in 1..Len(Pushed) : Pushed[k].entry_err
                       \/ \A n \in FsEntries(stack[1].path) :
                             \E k \in 1..Len(Pushed) : Pushed[k].path = join(stack[1].path, n)
               ELSE IF is_markdown_file(stack[1].path)
               THEN /\ stack' = Tail(stack)
                    /\ docs' = docs \o file_docs(stack[1].path,
                                                 index_markdown(src_of[stack[1].path]).val)
                    /\ stack[1].path \in FilesIndexed(docs')
               ELSE stack' = Tail(stack) /\ docs' = docs
        /\ exit_code' = Some(0) => FilesIndexed(docs') = FilesInReach
      ]_vars

\* a run over d with maximum depth 1 succeeded: d/a.md, one level down, is
\* indexed and d/s/c.MD, two levels down, is not
C13_Witness ==
    /\ inputs = <<PathD>>
    /\ max_depth = Some(1)
    /\ exit_code = Some(0)
    /\ FilesIndexed(docs) = {PathA}
    /\ PathC \notin FilesInReach

----------------------------------------------------------------------------
\* C14

\* the call on top reads a markdown file that the parser rejects
AtUnparsableFile ==
    /\ pc = "walk"
    /\ ~stack[1].entry_err
    /\ Allowed(stack[1].depth)
    /\ ~is_dir(stack[1].path)
    /\ is_markdown_file(stack[1].path)
    /\ src_of[stack[1].path].err

\* the call on top met a directory entry that could not be read
AtUnreadableEntry == pc = "walk" /\ stack[1].entry_err

\* C14: a directory, a directory entry or a markdown file that cannot be
\* read, or a markdown parse error, aborts the whole run.  The failing step
\* ends the process with status 1; after it no step is taken, so no later
\* path is processed; the records collected so far are not written.
\* Standard output is written once, by the step that ends the run with
\* status 0 after the last input was processed.
C14_ErrorsAbortRun ==
    [][ /\ (AtUnparsableFile \/ AtUnreadableEntry) => exit_code' = Some(1)
        /\ exit_code' = Some(1)
            => /\ pc = "walk"
               /\ pc' = "exit"
               /\ stdout' = <<>>
               /\ UNCHANGED <<docs, stack, next_input>>
        /\ pc # "exit"
        /\ exit_code = None
        /\ stdout' # stdout
            => /\ stdout = <<>>
               /\ stdout' = <<[json |-> docs], "\n">>
               /\ exit_code' = Some(0)
               /\ stack = <<>>
               /\ next_input > Len(inputs)
      ]_vars

\* the run failed below d after a file had been indexed: its records are
\* held but not written, and the second input was never called
C14_Witness ==
    /\ inputs = <<PathD, PathR>>
    /\ exit_code = Some(1)
    /\ pc = "exit"
    /\ docs # <<>>
    /\ stdout = <<>>
    /\ next_input = 2

----------------------------------------------------------------------------
\* C18

\* the records of one file, from its path and its text alone
RecordsFor(path, src) ==
    LET secs == index_markdown(src).val
    IN  [k \in 1..Len(secs) |->
            [file_path   |-> path,
             header      |-> secs[k].title,
             text_blocks |-> secs[k].body_text,
             code_blocks |-> [j \in 1..Len(secs[k].code_blocks) |->
                                 secs[k].code_blocks[j].value]]]

\* the files named by a list of records, one entry per run of records of
\* the same file
RECURSIVE FilesInOrder(_)
FilesInOrder(ds) ==
    IF ds = <<>> THEN <<>>
    ELSE LET rest == FilesInOrder(Tail(ds))
         IN  IF rest # <<>> /\ Head(rest) = Head(ds).file_path
             THEN rest
             ELSE <<Head(ds).file_path>> \o rest

RECURSIVE RecordsOfAll(_)
RecordsOfAll(ps) ==
    IF ps = <<>> THEN <<>>
    ELSE RecordsFor(Head(ps), src_of[Head(ps)]) \o RecordsOfAll(Tail(ps))

\* C18: the records of a file are a function of its path and its text, not
\* of the files indexed before or after it.  Each step that indexes a file
\* appends exactly that file's records to the combined list, whatever the
\* list holds, so the combined list is always the concatenation of the
\* per-file record lists of the files indexed so far, in the order in which
\* they were indexed.
C18_FilesIndependent ==
    [][ /\ docs' # docs
            => /\ pc = "walk"
               /\ docs' = docs \o RecordsFor(stack[1].path, src_of[stack[1].path])
        /\ LET ps == FilesInOrder(docs')
           IN  /\ \A j, k \in 1..Len(ps) : ps[j] = ps[k] => j = k
               /\ \A k \in 1..Len(ps) : ps[k] \in ReadableFiles
               /\ docs' = RecordsOfAll(ps)
      ]_vars

\* d/s/c.MD was listed and indexed before d/a.md, a file with another text
C18_Witness ==
    /\ src_of[PathA] # src_of[PathC]
    /\ docs = RecordsFor(PathC, src_of[PathC]) \o RecordsFor(PathA, src_of[PathA])
    /\ RecordsFor(PathC, src_of[PathC]) # <<>>
    /\ RecordsFor(PathA, src_of[PathA]) # <<>>

----------------------------------------------------------------------------
\* C20

\* the files of the model by their extension: md, MD, Markdown and md
MarkdownFiles == {PathA, PathC, PathE, PathR}

\* n.txt has the extension txt; .md is a hidden file without extension
OtherFiles == {PathN, PathH}

\* C20: the extension filter applies to every non-directory path that
\* process_path reaches within the depth limit, a file named on the command
\* line included.  A path whose extension is not md or markdown, compared
\* case-insensitively, is passed over: the call returns, nothing is
\* recorded and the run does not fail.  A path with such an extension is
\* read and indexed: its records are appended, unless reading or parsing
\* fails and ends the run.  No record of a run names a filtered path.
C20_ExtensionFilter ==
    [][ /\ (pc = "walk" /\ ~stack[1].entry_err /\ Allowed(stack[1].depth)
               /\ ~is_dir(stack[1].path))
            => /\ stack[1].path \in MarkdownFiles \cup OtherFiles
               /\ IF stack[1].path \in MarkdownFiles
                  THEN \/ exit_code' = Some(1) /\ pc' = "exit"
                       \/ /\ index_markdown(src_of[stack[1].path]).ok
                          /\ docs' = docs \o RecordsFor(stack[1].path, src_of[stack[1].path])
                          /\ stack' = Tail(stack)
                  ELSE /\ stack' = Tail(stack)
                       /\ docs' = docs
                       /\ exit_code' = None
                       /\ pc' # "exit"
        /\ \A k \in 1..Len(docs') : docs'[k].file_path \in MarkdownFiles
      ]_vars

\* n.txt was named on the command line before r.md: the run succeeded and
\* wrote the records of r.md alone
C20_Witness ==
    /\ inputs = <<PathN, PathR>>
    /\ exit_code = Some(0)
    /\ docs = RecordsFor(PathR, src_of[PathR])
    /\ docs # <<>>
    /\ stdout = <<[json |-> docs], "\n">>

====
